---- MODULE Spec2Model ----
(***************************************************************************)
(* Model of scripts/excel-to-backup.py: the converter of the allotment     *)
(* planning workbook to the application's v11 backup document.             *)
(*                                                                         *)
(* Text is modelled as a sequence of pieces.  A piece is either a single   *)
(* white-space character (" " or "\t"), a single parenthesis, or a run of  *)
(* characters that holds neither white space nor a parenthesis.  The text  *)
(* a sequence stands for is the concatenation of its pieces (Join).  On    *)
(* this representation str.lower, str.strip, str.replace('  ', ' ') and    *)
(* str.split('(')[0] act piece by piece exactly as they act on the         *)
(* characters.                                                             *)
(***************************************************************************)
EXTENDS Integers, Sequences, FiniteSets, TLC

VARIABLES
    pc,                 \* position of the run in main()
    argc,               \* len(sys.argv)
    all_sheets,         \* names of the sheets pd.read_excel returned
    stage,              \* which of the four sheet blocks of main() is next
    df,                 \* rows of the sheet being parsed that iterrows gave so far
    last_type,          \* parse_*: last_type
    plant_type,         \* parse_*: plant_type of the latest iteration
    parsed,             \* parse_*: the local list varieties / plantings
    all_varieties_raw,
    all_plantings_raw,
    varieties_output,
    seasons_map,
    stderr,             \* what was printed to sys.stderr
    exit_status,        \* << the exit status >> once the process has ended
    output_file,        \* the documents written to the output file, in order
    rows_read,          \* rows iterrows has given in this run, over all sheets
    type_name,          \* argument of a direct call of map_plant_id
    mapped              \* its result

vars == << pc, argc, all_sheets, stage, df, last_type, plant_type, parsed,
           all_varieties_raw, all_plantings_raw, varieties_output,
           seasons_map, stderr, exit_status, output_file, rows_read,
           type_name, mapped >>

\* Python's None where a text or a plant id is expected.
None == "<None>"

----------------------------------------------------------------------------
(* Text helpers *)

WhiteSpace == {" ", "\t"}

RECURSIVE Join(_)
Join(s) == IF s = <<>> THEN "" ELSE Head(s) \o Join(Tail(s))

\* str.lower on the pieces that hold an upper-case letter in this model.
UpperPieces ==
    ("P" :> "p") @@ ("Pea" :> "pea") @@ ("Peas" :> "peas") @@
    ("Onion" :> "onion") @@ ("ONION" :> "onion") @@ ("Spring" :> "spring") @@
    ("Keravel" :> "keravel") @@ ("Pink" :> "pink") @@ ("Pak" :> "pak") @@
    ("Choi" :> "choi") @@ ("Garlic" :> "garlic") @@ ("Leeks" :> "leeks") @@
    ("Potatoes" :> "potatoes") @@ ("Carrot" :> "carrot") @@
    ("Courgette" :> "courgette") @@ ("Broccoli" :> "broccoli") @@
    ("Lettuce" :> "lettuce") @@ ("Tomato" :> "tomato") @@
    ("Early" :> "early")

lower(s) == [i \in 1..Len(s) |->
                IF s[i] \in DOMAIN UpperPieces THEN UpperPieces[s[i]] ELSE s[i]]

RECURSIVE lstrip(_)
lstrip(s) == IF s # <<>> /\ Head(s) \in WhiteSpace THEN lstrip(Tail(s)) ELSE s

RECURSIVE rstrip(_)
rstrip(s) ==
    IF s # <<>> /\ s[Len(s)] \in WhiteSpace
    THEN rstrip(SubSeq(s, 1, Len(s) - 1)) ELSE s

strip(s) == rstrip(lstrip(s))

\* str.replace('  ', ' '): non-overlapping occurrences, left to right.
RECURSIVE replace_double_space(_)
replace_double_space(s) ==
    IF Len(s) < 2 THEN s
    ELSE IF s[1] = " " /\ s[2] = " "
         THEN <<" ">> \o replace_double_space(SubSeq(s, 3, Len(s)))
         ELSE <<s[1]>> \o replace_double_space(Tail(s))

\* str.split('(')[0]
RECURSIVE before_paren(_)
before_paren(s) ==
    IF s = <<>> \/ Head(s) = "(" THEN <<>>
    ELSE <<Head(s)>> \o before_paren(Tail(s))

----------------------------------------------------------------------------
(* Lookup tables *)

PLANT_MAPPINGS ==
    ("peas" :> "pea") @@ ("pea" :> "pea") @@ ("beans" :> "broad-bean") @@
    ("beans & peas" :> "broad-bean") @@
    ("broad bean 'ratio'" :> "broad-bean") @@
    ("broad beans" :> "broad-bean") @@ ("french beans" :> "french-bean") @@
    ("french bean" :> "french-bean") @@
    ("french borlotti stokkievitsboon" :> "french-bean") @@
    ("runner beans" :> "runner-bean") @@ ("runner bean" :> "runner-bean") @@
    ("onions" :> "onion") @@ ("onion" :> "onion") @@
    ("onion electric (red autumn)" :> "onion") @@
    ("onion senshyu (white autumn)" :> "onion") @@
    ("white senshyn" :> "onion") @@ ("red electric" :> "onion") @@
    ("onion 'centurion'" :> "onion") @@
    ("spring onion 'lilia'" :> "spring-onion") @@
    ("spring onion parade (organic)" :> "spring-onion") @@
    ("spring onions" :> "spring-onion") @@
    ("onion (spring) keravel pink" :> "spring-onion") @@
    ("potatoes" :> "potato") @@ ("potato" :> "potato") @@
    ("potatoes (early)" :> "potato") @@ ("charlotte seed" :> "potato") @@
    ("heidi red seed" :> "potato") @@ ("organic colleen" :> "potato") @@
    ("organic setanta" :> "potato") @@ ("garlic" :> "garlic") @@
    ("garlic (autumn) kingsland" :> "garlic") @@
    ("garlic 'flavor'" :> "garlic") @@
    ("caulk wight (hardneck)" :> "garlic") @@ ("leeks" :> "leek") @@
    ("leek" :> "leek") @@ ("lancelot" :> "leek") @@
    ("leeks seeds tape" :> "leek") @@ ("carrots" :> "carrot") @@
    ("carrot" :> "carrot") @@ ("carrot nantes 2 (organic)" :> "carrot") @@
    ("beetroot" :> "beetroot") @@ ("courgettes" :> "courgette") @@
    ("courgette" :> "courgette") @@ ("courguette" :> "courgette") @@
    ("wave climber" :> "courgette") @@ ("cauliflower" :> "cauliflower") @@
    ("pak choi" :> "pak-choi") @@ ("pak choi baby" :> "pak-choi") @@
    ("lettuce" :> "lettuce") @@ ("spinach" :> "spinach") @@
    ("chard" :> "chard") @@ ("rainbow chard" :> "chard") @@
    ("strawberries" :> "strawberry") @@ ("strawberry" :> "strawberry") @@
    ("broccoli" :> "broccoli") @@ ("cornflower" :> "cornflower") @@
    ("cornflower 'blue diadem'" :> "cornflower") @@
    ("cosmos" :> "cosmos") @@ ("cosmos 'sonata mixed'" :> "cosmos") @@
    ("calendula" :> "calendula") @@ ("pumpkin" :> "pumpkin") @@
    ("sweetcorn" :> "sweetcorn") @@ ("spinach 'palco' f1" :> "spinach") @@
    ("sweet pea 'old fashioned mixed'" :> "sweet-pea") @@
    ("sweet pea" :> "sweet-pea") @@
    ("red - marigold (afro-french) 'zenith mixed' f1" :> "marigold") @@
    ("marigold (dwarf french) 'disco'" :> "marigold") @@
    ("marigold" :> "marigold") @@
    ("sunflower 'medium red flower'" :> "sunflower") @@
    ("sunflower" :> "sunflower") @@
    ("zinnia 'dahlia flowered mixed'" :> "zinnia") @@
    ("zinnia" :> "zinnia") @@ ("lupin" :> "lupin") @@
    ("nasturtium" :> "nasturtium")

BED_MAPPING_unrenamed ==
    ("A" :> "A") @@ ("C" :> "C") @@ ("C/B" :> "C") @@ ("D" :> "D") @@
    ("B" :> "B")

\* Lines 109-115.
BED_MAPPING ==
    ("A" :> "A") @@ ("C" :> "C") @@ ("C/B" :> "C") @@ ("D" :> "D") @@
    ("B" :> "B1")

----------------------------------------------------------------------------
(* Cells.  pandas gives NaN for an empty cell. *)

NaN == [na |-> TRUE, v |-> <<>>]
Cell(s) == [na |-> FALSE, v |-> s]
isna(c) == c.na

\* normalize_plant_name; the argument is a cell value or None (as NaN).
normalize_plant_name(name) ==
    IF isna(name) THEN None
    ELSE Join(replace_double_space(strip(lower(name.v))))

\* The pieces of the normalized name, before they are joined.
normalized_pieces(name) == replace_double_space(strip(lower(name.v)))

map_plant_id_swapped(name) ==
    IF isna(name) \/ normalized_pieces(name) = <<>> THEN None
    ELSE LET normalized == normalized_pieces(name)
             cleaned == Join(strip(before_paren(normalized)))
         IN IF cleaned \in DOMAIN PLANT_MAPPINGS THEN PLANT_MAPPINGS[cleaned]
            ELSE IF Join(normalized) \in DOMAIN PLANT_MAPPINGS
                 THEN PLANT_MAPPINGS[Join(normalized)]
                 ELSE None

map_plant_id(name) ==
    IF isna(name) \/ normalize_plant_name(name) = "" THEN None
    ELSE LET normalized == normalized_pieces(name)
             cleaned == Join(strip(before_paren(normalized)))
         IN IF Join(normalized) \in DOMAIN PLANT_MAPPINGS
            THEN PLANT_MAPPINGS[Join(normalized)]
            ELSE IF cleaned \in DOMAIN PLANT_MAPPINGS
                 THEN PLANT_MAPPINGS[cleaned]
                 ELSE None

----------------------------------------------------------------------------
(* The workbook.  A "To grow" row holds the cells Variety, Type, Supplier,  *)
(* Price and Arrived.  A "Sowing calendar" row holds the cells of the first *)
(* three columns (type, variety, bed) and of the date columns.              *)

Sheet2024ToGrow == "2024 To grow"
Sheet2024Sowing == "Sowing calendar 2024"
Sheet2025ToGrow == "2025 To grow"
Sheet2025Sowing == "Sowing calendar 25"

\* The four sheet blocks of main(), in the order it runs them.
SheetOfStage ==
    << Sheet2024ToGrow, Sheet2024Sowing, Sheet2025ToGrow, Sheet2025Sowing >>
YearOfStage == << 2024, 2024, 2025, 2025 >>
IsToGrowStage(k) == k \in {1, 3}
IsSowingStage(k) == k \in {2, 4}
AfterSheets == Len(SheetOfStage) + 1

\* A Price cell: empty, a number, or text float() cannot convert.
NoPrice == [na |-> TRUE, numeric |-> TRUE, v |-> 0]
PriceNum(n) == [na |-> FALSE, numeric |-> TRUE, v |-> n]
PriceText == [na |-> FALSE, numeric |-> FALSE, v |-> 0]

\* An Arrived cell: empty, or a value with its truth value under bool().
NoArrived == [na |-> TRUE, v |-> FALSE]
Arrived(b) == [na |-> FALSE, v |-> b]

\* A date cell: NaT/empty, or a Timestamp given as strftime('%Y-%m-%d') prints it.
NaT == "NaT"

\* What lines 194-203 make of the header of each date column of the sowing
\* sheets: "sow" ('sow', 'january' or 'february' in the name), "plant",
\* "harvest", or "other".
DateColumnKinds == << "sow", "sow", "plant", "harvest", "other" >>

GrowRow(variety, type, supplier, price, arrived) ==
    [Variety |-> variety, Type |-> type, Supplier |-> supplier,
     Price |-> price, Arrived |-> arrived]

SowRow(type, variety, bed, dates) ==
    [Type |-> type, Variety |-> variety, Bed |-> bed, Dates |-> dates]

NoDates == << NaT, NaT, NaT, NaT, NaT >>

----------------------------------------------------------------------------
(* parse_varieties and parse_plantings, one loop iteration at a time.  The  *)
(* locals of the loop are the record s: last_type, plant_type, parsed (the  *)
(* list being built), warnings (printed by this iteration) and raised (an   *)
(* exception left the function).                                            *)

\* Lines 144-148 and 176-180: the carry-forward of the type.
carried_type(cell, last) == IF isna(cell) THEN last ELSE cell

\* Python's truth of plant_type: None and '' are false.
falsy_type(t) == isna(t) \/ Join(t.v) = ""

Warning(text) == [kind |-> "warning", text |-> text, n |-> 0, m |-> 0]

\* Lines 144-162: the iteration for a row whose Variety is not blank.
parse_varieties_body(s, row, year) ==
    LET t == carried_type(row.Type, s.last_type)
        s1 == [s EXCEPT !.last_type = t, !.plant_type = t, !.warnings = <<>>]
    IN  IF falsy_type(t) THEN s1
        ELSE IF map_plant_id(t) = None
        THEN [s1 EXCEPT !.warnings = << Warning(Join(t.v)) >>]
        ELSE IF ~isna(row.Price) /\ ~row.Price.numeric
        THEN [s1 EXCEPT !.raised = TRUE]
        ELSE [s1 EXCEPT !.parsed = Append(@,
                [plantId |-> map_plant_id(t),
                 name |-> Join(strip(row.Variety.v)),
                 supplier |-> IF isna(row.Supplier) THEN None
                              ELSE Join(strip(row.Supplier.v)),
                 price |-> IF isna(row.Price) THEN NoPrice ELSE row.Price,
                 year |-> year,
                 arrived |-> IF isna(row.Arrived) THEN FALSE
                             ELSE row.Arrived.v])]

parse_varieties_step_eager(s, row, year) ==
    IF isna(row.Variety)
    THEN [s EXCEPT !.last_type = carried_type(row.Type, @), !.warnings = <<>>]
    ELSE parse_varieties_body(s, row, year)

\* Lines 141-162.
parse_varieties_step(s, row, year) ==
    IF isna(row.Variety) THEN [s EXCEPT !.warnings = <<>>]
    ELSE parse_varieties_body(s, row, year)

\* Lines 188-203: the first Timestamp of each kind of date column.
first_date(cells, kind) ==
    LET hits == {i \in 1..Len(cells) :
                    cells[i] # NaT /\ DateColumnKinds[i] = kind}
    IN  IF hits = {} THEN None
        ELSE cells[CHOOSE i \in hits : \A j \in hits : i <= j]

\* Lines 171-212: the iteration for a row of index idx >= 2.
parse_plantings_body(s, row, year) ==
    IF isna(row.Variety) THEN [s EXCEPT !.warnings = <<>>]
    ELSE
    LET t == carried_type(row.Type, s.last_type)
        s1 == [s EXCEPT !.last_type = t, !.plant_type = t, !.warnings = <<>>]
    IN  IF falsy_type(t) THEN s1
        ELSE IF map_plant_id(t) = None THEN s1
        ELSE [s1 EXCEPT !.parsed = Append(@,
                [plantId |-> map_plant_id(t),
                 varietyName |-> Join(strip(row.Variety.v)),
                 bed |-> IF isna(row.Bed) THEN None
                         ELSE Join(strip(row.Bed.v)),
                 sowDate |-> first_date(row.Dates, "sow"),
                 transplantDate |-> first_date(row.Dates, "plant"),
                 harvestDate |-> first_date(row.Dates, "harvest"),
                 year |-> year])]

\* Lines 168-212; idx is the row's index label (0, 1, 2, ...).
parse_plantings_step(s, idx, row, year) ==
    IF idx < 2 THEN [s EXCEPT !.warnings = <<>>]
    ELSE parse_plantings_body(s, row, year)

----------------------------------------------------------------------------
(* main(): the varieties (lines 242-264) *)

\* generate_id: the prefix and eight random characters.  The random part is
\* left opaque: nothing below relies on two ids being different.
generate_id(prefix) == prefix \o "-" \o "????????"

\* datetime.now().isoformat() + 'Z', opaque.
now == "<now>Z"

NoFields == [f \in {} |-> f]

\* sorted(list(set(xs))) for a set of integers.
RECURSIVE sorted_ints(_)
sorted_ints(S) ==
    IF S = {} THEN <<>>
    ELSE LET lo == CHOOSE x \in S : \A y \in S : x <= y
         IN  <<lo>> \o sorted_ints(S \ {lo})

Range(q) == {q[i] : i \in 1..Len(q)}

\* The position of key (plantId, name) in the insertion-ordered variety_map,
\* 0 when it is not a key.
key_index(vmap, v) ==
    LET hits == {i \in 1..Len(vmap) :
                    vmap[i].plantId = v.plantId /\ vmap[i].name = v.name}
    IN  IF hits = {} THEN 0 ELSE CHOOSE i \in hits : TRUE

seeds_status(v) == IF v.arrived THEN "have" ELSE "ordered"

seeds_put_first_wins(seeds, v) ==
    [y \in DOMAIN seeds \cup {v.year} |->
        IF y \in DOMAIN seeds THEN seeds[y] ELSE seeds_status(v)]

\* Line 258: seedsByYear[year] = ...
seeds_put(seeds, v) ==
    [y \in DOMAIN seeds \cup {v.year} |->
        IF y = v.year THEN seeds_status(v) ELSE seeds[y]]

\* Lines 245-258: one iteration of the loop over all_varieties_raw.
variety_map_put(vmap, v) ==
    LET k == key_index(vmap, v)
        fresh == [id |-> generate_id("variety"), plantId |-> v.plantId,
                  name |-> v.name, supplier |-> v.supplier,
                  price |-> v.price, yearsUsed |-> <<>>,
                  plannedYears |-> <<>>, seedsByYear |-> NoFields]
        m == IF k = 0 THEN Append(vmap, fresh) ELSE vmap
        i == IF k = 0 THEN Len(m) ELSE k
    IN  [m EXCEPT ![i].yearsUsed = Append(@, v.year),
                  ![i].seedsByYear = seeds_put(@, v)]

RECURSIVE build_variety_map(_, _)
build_variety_map(raw, vmap) ==
    IF raw = <<>> THEN vmap
    ELSE build_variety_map(Tail(raw), variety_map_put(vmap, Head(raw)))

\* Lines 262-263: yearsUsed sorted without duplicates, then the entries whose
\* value is None or {} dropped.
cleaned_variety(v) ==
    [id |-> v.id, plantId |-> v.plantId, name |-> v.name,
     yearsUsed |-> sorted_ints(Range(v.yearsUsed)),
     plannedYears |-> v.plannedYears]
    @@ (IF v.supplier # None THEN [supplier |-> v.supplier] ELSE NoFields)
    @@ (IF ~v.price.na THEN [price |-> v.price.v] ELSE NoFields)
    @@ (IF DOMAIN v.seedsByYear # {} THEN [seedsByYear |-> v.seedsByYear]
        ELSE NoFields)

\* Lines 243-264.
build_varieties_output(raw) ==
    LET vmap == build_variety_map(raw, <<>>)
    IN  [i \in 1..Len(vmap) |-> cleaned_variety(vmap[i])]

----------------------------------------------------------------------------
(* main(): the seasons (lines 266-292) *)

bed_id_of_any(p) ==
    IF p.bed \in DOMAIN BED_MAPPING THEN BED_MAPPING[p.bed] ELSE p.bed

\* Line 270: BED_MAPPING.get(p['bed'], None)
bed_id_of(p) ==
    IF p.bed \in DOMAIN BED_MAPPING THEN BED_MAPPING[p.bed] ELSE None

\* Lines 279-290: the planting put in the season; '' and None are left out.
Truthy(x) == x # None /\ x # ""

planting_of(p) ==
    [id |-> generate_id("planting"), plantId |-> p.plantId]
    @@ (IF Truthy(p.varietyName) THEN [varietyName |-> p.varietyName]
        ELSE NoFields)
    @@ (IF Truthy(p.sowDate) THEN [sowDate |-> p.sowDate] ELSE NoFields)
    @@ (IF Truthy(p.transplantDate)
        THEN [transplantDate |-> p.transplantDate] ELSE NoFields)
    @@ (IF Truthy(p.harvestDate) THEN [harvestDate |-> p.harvestDate]
        ELSE NoFields)

\* Lines 269-292: one iteration of the loop over all_plantings_raw.  smap maps
\* a year to a map from bed id to the list of its plantings.
seasons_map_put(smap, p) ==
    LET bed_id == bed_id_of(p)
    IN  IF bed_id = None \/ bed_id = "" THEN smap
        ELSE LET beds == IF p.year \in DOMAIN smap THEN smap[p.year]
                         ELSE NoFields
                 old == IF bed_id \in DOMAIN beds THEN beds[bed_id] ELSE <<>>
                 beds2 == [b \in DOMAIN beds \cup {bed_id} |->
                             IF b = bed_id THEN Append(old, planting_of(p))
                             ELSE beds[b]]
             IN  [y \in DOMAIN smap \cup {p.year} |->
                     IF y = p.year THEN beds2 ELSE smap[y]]

RECURSIVE build_seasons_map(_, _)
build_seasons_map(raw, smap) ==
    IF raw = <<>> THEN smap
    ELSE build_seasons_map(Tail(raw), seasons_map_put(smap, Head(raw)))

----------------------------------------------------------------------------
(* main(): rotation groups, layout areas and the document (lines 294-433) *)

\* Lines 301-314.
group_of(pid) ==
    IF pid \in {"pea", "broad-bean", "french-bean", "runner-bean"}
    THEN "legumes"
    ELSE IF pid \in {"cabbage", "kale", "broccoli", "cauliflower",
                     "brussels-sprout"}
    THEN "brassicas"
    ELSE IF pid \in {"carrot", "beetroot", "parsnip", "potato", "turnip"}
    THEN "roots"
    ELSE IF pid \in {"onion", "garlic", "leek", "spring-onion", "shallot"}
    THEN "alliums"
    ELSE IF pid \in {"courgette", "pumpkin", "squash", "cucumber", "melon"}
    THEN "cucurbits"
    ELSE IF pid \in {"tomato", "pepper", "aubergine", "chilli"}
    THEN "solanaceae"
    ELSE "roots"

\* Line 315: group_counts as the list of its (group, count) items in
\* insertion order.
count_put(counts, g) ==
    LET hits == {i \in 1..Len(counts) : counts[i].group = g}
    IN  IF hits = {} THEN Append(counts, [group |-> g, n |-> 1])
        ELSE LET i == CHOOSE i \in hits : TRUE
             IN  [counts EXCEPT ![i].n = @ + 1]

RECURSIVE group_counts_of(_, _)
group_counts_of(plantings, counts) ==
    IF plantings = <<>> THEN counts
    ELSE group_counts_of(Tail(plantings),
                         count_put(counts, group_of(Head(plantings).plantId)))

\* max(group_counts, key=group_counts.get): the first item, in iteration
\* order, that no later item beats.
RECURSIVE max_by_count(_, _)
max_by_count(counts, best) ==
    IF counts = <<>> THEN best
    ELSE max_by_count(Tail(counts),
                      IF Head(counts).n > best.n THEN Head(counts) ELSE best)

RECURSIVE max_by_count_last(_, _)
max_by_count_last(counts, best) ==
    IF counts = <<>> THEN best
    ELSE max_by_count_last(Tail(counts),
                      IF Head(counts).n >= best.n THEN Head(counts) ELSE best)

infer_rotation_group_last(plantings) ==
    LET counts == group_counts_of(plantings, <<>>)
    IN  IF counts = <<>> THEN "roots"
        ELSE max_by_count_last(Tail(counts), Head(counts)).group

\* Lines 295-318.
infer_rotation_group(plantings) ==
    LET counts == group_counts_of(plantings, <<>>)
    IN  IF counts = <<>> THEN "roots"
        ELSE max_by_count(Tail(counts), Head(counts)).group

\* Python's order of the strings that can be bed ids here (by code point).
StrOrder == << "A", "B", "B1", "B1-prime", "B2", "B2-prime", "C", "C/B", "D",
               "E", "a", "raspberries" >>
str_rank(x) == CHOOSE i \in 1..Len(StrOrder) : StrOrder[i] = x

\* sorted(keys) for a set of bed ids.
RECURSIVE sorted_strs(_)
sorted_strs(S) ==
    IF S = {} THEN <<>>
    ELSE LET lo == CHOOSE x \in S : \A y \in S : str_rank(x) <= str_rank(y)
         IN  <<lo>> \o sorted_strs(S \ {lo})

\* Lines 342-352.
grid_positions ==
    ("E" :> [x |-> 0, y |-> 0, w |-> 2, h |-> 2]) @@
    ("C" :> [x |-> 0, y |-> 4, w |-> 2, h |-> 3]) @@
    ("B2-prime" :> [x |-> 2, y |-> 2, w |-> 2, h |-> 2]) @@
    ("B2" :> [x |-> 2, y |-> 4, w |-> 2, h |-> 4]) @@
    ("B1-prime" :> [x |-> 4, y |-> 2, w |-> 2, h |-> 2]) @@
    ("B1" :> [x |-> 4, y |-> 4, w |-> 2, h |-> 4]) @@
    ("A" :> [x |-> 8, y |-> 2, w |-> 2, h |-> 2]) @@
    ("raspberries" :> [x |-> 8, y |-> 4, w |-> 2, h |-> 4]) @@
    ("D" :> [x |-> 2, y |-> 9, w |-> 4, h |-> 3])

\* Line 355.
AREA_IDS == << "A", "B1", "B2", "B1-prime", "B2-prime", "C", "D", "E",
               "raspberries" >>

min_year(smap) == CHOOSE y \in DOMAIN smap : \A z \in DOMAIN smap : y <= z
max_year(smap) == CHOOSE y \in DOMAIN smap : \A z \in DOMAIN smap : y >= z

first_year_latest(smap) == max_year(smap)

\* Line 375.
first_year(smap) == min_year(smap)

\* Lines 356-378: one area of the layout.  The icon, an emoji in the source,
\* is given by its name.
area_of(bed_id, smap) ==
    LET kind == IF bed_id = "raspberries" THEN "perennial-bed"
                ELSE "rotation-bed"
    IN  [id |-> bed_id,
         name |-> IF bed_id # "raspberries" THEN "Bed " \o bed_id
                  ELSE "Raspberries",
         kind |-> kind,
         canHavePlantings |-> TRUE,
         icon |-> IF bed_id = "raspberries" THEN "grapes" ELSE "seedling",
         color |-> "zen-moss",
         createdAt |-> now]
        @@ (IF bed_id \in DOMAIN grid_positions
            THEN [gridPosition |-> grid_positions[bed_id]] ELSE NoFields)
        @@ (IF DOMAIN smap # {} /\ kind = "rotation-bed"
               /\ bed_id \in DOMAIN smap[first_year(smap)]
            THEN [rotationGroup |->
                    infer_rotation_group(smap[first_year(smap)][bed_id])]
            ELSE NoFields)

\* Lines 354-380.
build_areas(smap) == [i \in 1..Len(AREA_IDS) |-> area_of(AREA_IDS[i], smap)]

\* Lines 386-393: the areas of one season.
area_seasons_of(beds) ==
    LET ids == sorted_strs(DOMAIN beds)
    IN  [i \in 1..Len(ids) |->
            [areaId |-> ids[i],
             rotationGroup |-> infer_rotation_group(beds[ids[i]]),
             plantings |-> beds[ids[i]],
             notes |-> <<>>]]

season_years_unsorted(smap) ==
    LET up == sorted_ints(DOMAIN smap)
    IN  [i \in 1..Len(up) |-> up[Len(up) + 1 - i]]

\* Lines 384 and 321: sorted(seasons_map.keys()).
season_years(smap) == sorted_ints(DOMAIN smap)

\* Lines 383-402.
build_seasons_v10(smap) ==
    LET years == season_years(smap)
    IN  [i \in 1..Len(years) |->
            [year |-> years[i],
             status |-> "historical",
             areas |-> area_seasons_of(smap[years[i]]),
             notes |-> "Imported from Excel",
             createdAt |-> now,
             updatedAt |-> now]]

\* Line 418: the default when there is no season.
DefaultCurrentYear == 2025

\* Line 418.
current_year(smap) ==
    IF DOMAIN smap # {} THEN max_year(smap) ELSE DefaultCurrentYear

\* Lines 405-433.
build_output(smap, varieties) ==
    [allotment |->
        [version |-> 11,
         meta |-> [name |-> "My Allotment", location |-> "Scotland",
                   createdAt |-> now, updatedAt |-> now],
         layout |-> [areas |-> build_areas(smap)],
         seasons |-> build_seasons_v10(smap),
         currentYear |-> current_year(smap),
         varieties |-> <<>>,
         maintenanceTasks |-> <<>>,
         gardenEvents |-> <<>>],
     varieties |->
        [version |-> 2,
         varieties |-> varieties,
         meta |-> [createdAt |-> now, updatedAt |-> now]],
     exportedAt |-> now,
     exportVersion |-> 11]

----------------------------------------------------------------------------
(* Bounds *)

MaxArgc == 3        \* len(sys.argv) is 1..MaxArgc
MaxGrowRows == 3    \* rows of the workbook when the To-grow rows vary
MaxSowRows == 6     \* rows of the workbook when the sowing rows vary
MaxCarryRows == 4   \* rows of the workbook when Type and Variety blanks vary
MaxLen == 4         \* pieces of a name handed to map_plant_id
MaxPad == 1         \* white space put around a listed name

----------------------------------------------------------------------------
(* The run of main() *)

Message(kind, n, m) == [kind |-> kind, text |-> "", n |-> n, m |-> m]

locals == [last_type |-> last_type, plant_type |-> plant_type,
           parsed |-> parsed, warnings |-> <<>>, raised |-> FALSE]

RunInit ==
    /\ pc = "start"
    /\ argc \in 1..MaxArgc
    /\ all_sheets = {}
    /\ stage = 0
    /\ df = <<>>
    /\ last_type = NaN
    /\ plant_type = NaN
    /\ parsed = <<>>
    /\ all_varieties_raw = <<>>
    /\ all_plantings_raw = <<>>
    /\ varieties_output = <<>>
    /\ seasons_map = NoFields
    /\ stderr = <<>>
    /\ exit_status = <<>>
    /\ output_file = <<>>
    /\ rows_read = 0
    /\ type_name = NaN
    /\ mapped = None

\* Lines 216-218.
Usage ==
    /\ pc = "start"
    /\ argc < 3
    /\ stderr' = Append(stderr, Message("usage", 0, 0))
    /\ exit_status' = << 1 >>
    /\ pc' = "exited"
    /\ UNCHANGED << argc, all_sheets, stage, df, last_type, plant_type, parsed,
                    all_varieties_raw, all_plantings_raw, varieties_output,
                    seasons_map, output_file, rows_read, type_name, mapped >>

\* Lines 220-228; the workbook has one of the sheet sets of workbooks.  The
\* file is taken to exist and to be a workbook, and a sowing sheet to have its
\* three leading columns (df.columns[0..2]).
ReadExcel(workbooks) ==
    /\ pc = "start"
    /\ argc >= 3
    /\ \E sheets \in workbooks : all_sheets' = sheets
    /\ stage' = 1
    /\ pc' = "parse"
    /\ UNCHANGED << argc, df, last_type, plant_type, parsed,
                    all_varieties_raw, all_plantings_raw, varieties_output,
                    seasons_map, stderr, exit_status, output_file, rows_read,
                    type_name, mapped >>

InSheetBlock == pc = "parse" /\ stage \in 1..Len(SheetOfStage)

\* Lines 231, 233, 237, 239: the sheet is not in the workbook.
SkipSheet ==
    /\ InSheetBlock
    /\ SheetOfStage[stage] \notin all_sheets
    /\ stage' = stage + 1
    /\ UNCHANGED << pc, argc, all_sheets, df, last_type, plant_type, parsed,
                    all_varieties_raw, all_plantings_raw, varieties_output,
                    seasons_map, stderr, exit_status, output_file, rows_read,
                    type_name, mapped >>

\* What an iteration s of a parse loop leaves behind; an exception that
\* leaves parse_* is not caught anywhere: traceback, exit status 1.
AfterIteration(s, row) ==
    /\ df' = Append(df, row)
    /\ rows_read' = rows_read + 1
    /\ last_type' = s.last_type
    /\ plant_type' = s.plant_type
    /\ parsed' = s.parsed
    /\ IF s.raised
       THEN /\ stderr' = Append(stderr \o s.warnings, Message("traceback", 0, 0))
            /\ exit_status' = << 1 >>
            /\ pc' = "crashed"
       ELSE /\ stderr' = stderr \o s.warnings
            /\ UNCHANGED << exit_status, pc >>
    /\ UNCHANGED << argc, all_sheets, stage, all_varieties_raw,
                    all_plantings_raw, varieties_output, seasons_map,
                    output_file, type_name, mapped >>

\* One iteration of the loop of parse_varieties (lines 141-162).
VarietiesRow(rows, maxRows) ==
    /\ InSheetBlock
    /\ IsToGrowStage(stage)
    /\ SheetOfStage[stage] \in all_sheets
    /\ rows_read < maxRows
    /\ \E row \in rows :
          AfterIteration(parse_varieties_step(locals, row, YearOfStage[stage]),
                         row)

\* One iteration of the loop of parse_plantings (lines 168-212).  The first
\* two rows of the sheet are drawn from headRows, the others from rows.
PlantingsRow(headRows, rows, maxRows) ==
    /\ InSheetBlock
    /\ IsSowingStage(stage)
    /\ SheetOfStage[stage] \in all_sheets
    /\ rows_read < maxRows
    /\ \E row \in (IF Len(df) < 2 THEN headRows ELSE rows) :
          AfterIteration(parse_plantings_step(locals, Len(df), row,
                                              YearOfStage[stage]), row)

\* The sheet has no more rows: parse_* returns and main extends its list
\* (lines 163, 213, 232-240).
EndSheet ==
    /\ InSheetBlock
    /\ SheetOfStage[stage] \in all_sheets
    /\ IF IsToGrowStage(stage)
       THEN /\ all_varieties_raw' = all_varieties_raw \o parsed
            /\ UNCHANGED all_plantings_raw
       ELSE /\ all_plantings_raw' = all_plantings_raw \o parsed
            /\ UNCHANGED all_varieties_raw
    /\ df' = <<>>
    /\ last_type' = NaN
    /\ plant_type' = NaN
    /\ parsed' = <<>>
    /\ stage' = stage + 1
    /\ UNCHANGED << pc, argc, all_sheets, varieties_output, seasons_map,
                    stderr, exit_status, output_file, rows_read, type_name,
                    mapped >>

\* Lines 242-292.
Build ==
    /\ pc = "parse"
    /\ stage = AfterSheets
    /\ varieties_output' = build_varieties_output(all_varieties_raw)
    /\ seasons_map' = build_seasons_map(all_plantings_raw, NoFields)
    /\ pc' = "write"
    /\ UNCHANGED << argc, all_sheets, stage, df, last_type, plant_type, parsed,
                    all_varieties_raw, all_plantings_raw, stderr, exit_status,
                    output_file, rows_read, type_name, mapped >>

\* Lines 294-439.
WriteOutput ==
    /\ pc = "write"
    /\ output_file' =
          Append(output_file, build_output(seasons_map, varieties_output))
    /\ stderr' = stderr \o
          << Message("converted", Len(varieties_output),
                     Len(season_years(seasons_map))),
             Message("written", 0, 0) >>
    /\ exit_status' = << 0 >>
    /\ pc' = "done"
    /\ UNCHANGED << argc, all_sheets, stage, df, last_type, plant_type, parsed,
                    all_varieties_raw, all_plantings_raw, varieties_output,
                    seasons_map, rows_read, type_name, mapped >>

RunNext(workbooks, growRows, sowHeadRows, sowRows, maxRows) ==
    \/ Usage
    \/ ReadExcel(workbooks)
    \/ SkipSheet
    \/ VarietiesRow(growRows, maxRows)
    \/ PlantingsRow(sowHeadRows, sowRows, maxRows)
    \/ EndSheet
    \/ Build
    \/ WriteOutput

----------------------------------------------------------------------------
(* Workbooks *)

Peas == Cell(<< "Peas" >>)                   \* pea, a legume
Onion == Cell(<< "Onion" >>)                 \* onion, an allium
Lettuce == Cell(<< "Lettuce" >>)             \* lettuce, in no family
Unmapped == Cell(<< "zzz" >>)                \* no key of PLANT_MAPPINGS
V1 == Cell(<< "v1" >>)
V1Padded == Cell(<< "v1", " " >>)
V2 == Cell(<< "v2" >>)
S1 == Cell(<< "s1" >>)
S2 == Cell(<< " ", "s2" >>)

\* To-grow rows that differ in what the merge of the varieties reads.
GrowRowsRich ==
    { GrowRow(V1, Peas, S1, PriceNum(1), Arrived(TRUE)),
      GrowRow(V1Padded, Peas, S2, PriceNum(2), Arrived(FALSE)),
      GrowRow(V1, NaN, NaN, NoPrice, NoArrived),
      GrowRow(V2, Onion, NaN, PriceNum(2), Arrived(TRUE)),
      GrowRow(V1, Unmapped, S1, PriceNum(1), Arrived(TRUE)),
      GrowRow(V1, Peas, S1, PriceText, Arrived(FALSE)),
      GrowRow(NaN, Onion, S1, PriceNum(1), Arrived(TRUE)) }

GrowRowsPlain == { GrowRow(V1, Peas, S1, PriceNum(1), Arrived(TRUE)) }

HeaderRow ==
    SowRow(Cell(<< "Type" >>), Cell(<< "Variety" >>), Cell(<< "Bed" >>),
           NoDates)

SowDates == << NaT, "2024-03-01", "2024-05-01", NaT, "2024-01-01" >>

\* Sowing rows that differ in plant family and bed.
SowRowsRich ==
    { SowRow(Peas, V1, Cell(<< "A" >>), SowDates),
      SowRow(Onion, V1, Cell(<< "A" >>), NoDates),
      SowRow(Lettuce, V2, Cell(<< " ", "A" >>), NoDates),
      SowRow(Peas, V1Padded, Cell(<< "B" >>), NoDates),
      SowRow(Onion, V1, Cell(<< "C/B", " " >>), NoDates),
      SowRow(NaN, V1, Cell(<< "a" >>), NoDates),
      SowRow(Peas, V1, NaN, NoDates),
      SowRow(Unmapped, V1, Cell(<< "A" >>), NoDates) }

SowRowsPlain == { SowRow(Peas, V1, Cell(<< "A" >>), NoDates) }

\* Rows that differ in which of Type and Variety is blank.
CarryTypes == { NaN, Peas, Onion }
CarryVarieties == { NaN, V1 }

GrowRowsCarry ==
    { GrowRow(v, t, NaN, NoPrice, NoArrived) :
        v \in CarryVarieties, t \in CarryTypes }

SowRowsCarry ==
    { SowRow(t, v, Cell(<< "A" >>), NoDates) :
        v \in CarryVarieties, t \in CarryTypes }

----------------------------------------------------------------------------
(* Specifications *)

\* The To-grow rows vary.
GrowWorkbooks ==
    { { Sheet2024ToGrow, Sheet2025ToGrow }, { Sheet2024Sowing } }
GrowNext ==
    RunNext(GrowWorkbooks, GrowRowsRich, { HeaderRow }, SowRowsPlain,
            MaxGrowRows)
SpecGrow == RunInit /\ [][GrowNext]_vars

\* The sowing rows vary.
SowWorkbooks ==
    { { Sheet2024Sowing, Sheet2025Sowing }, { Sheet2025ToGrow } }
SowNext ==
    RunNext(SowWorkbooks, GrowRowsPlain, { HeaderRow }, SowRowsRich,
            MaxSowRows)
SpecSow == RunInit /\ [][SowNext]_vars

\* The blanks of Type and Variety vary.
CarryWorkbooks == { { Sheet2024ToGrow }, { Sheet2025Sowing } }
CarryNext ==
    RunNext(CarryWorkbooks, GrowRowsCarry, SowRowsCarry, SowRowsCarry,
            MaxCarryRows)
SpecCarry == RunInit /\ [][CarryNext]_vars

\* map_plant_id called on its own.
Pieces == { " ", "\t", "(", "p", "e", "a", "P", "pak", "choi" }

FreeNames == UNION { [1..n -> Pieces] : n \in 0..MaxLen }

ListedNames ==
    { << "onion", " ", "(", "spring", ")", " ", "keravel", " ", "pink" >>,
      << "Onion", " ", "(", "Spring", ")", " ", "Keravel", " ", "Pink" >>,
      << "onion", " ", "(", "red", ")" >>,
      << "potatoes", " ", "(", "early", ")" >>,
      << "Potatoes", "(", "late", ")" >>,
      << "garlic", " ", " ", "(", "autumn", ")", " ", "kingsland" >>,
      << "Pak", " ", " ", " ", "Choi" >>,
      << "zzz", " ", "(", "onion", ")" >>,
      << "(", "onion", ")" >>,
      << "Peas" >> }

Pads == UNION { [1..n -> WhiteSpace] : n \in 0..MaxPad }

Names ==
    FreeNames \cup { l \o b \o r : l \in Pads, b \in ListedNames, r \in Pads }

MapInit ==
    /\ pc = "call"
    /\ type_name \in { NaN } \cup { Cell(n) : n \in Names }
    /\ mapped = None
    /\ argc = 0
    /\ all_sheets = {}
    /\ stage = 0
    /\ df = <<>>
    /\ last_type = NaN
    /\ plant_type = NaN
    /\ parsed = <<>>
    /\ all_varieties_raw = <<>>
    /\ all_plantings_raw = <<>>
    /\ varieties_output = <<>>
    /\ seasons_map = NoFields
    /\ stderr = <<>>
    /\ exit_status = <<>>
    /\ output_file = <<>>
    /\ rows_read = 0

\* Lines 127-136.
CallMapPlantId ==
    /\ pc = "call"
    /\ mapped' = map_plant_id(type_name)
    /\ pc' = "returned"
    /\ UNCHANGED << argc, all_sheets, stage, df, last_type, plant_type, parsed,
                    all_varieties_raw, all_plantings_raw, varieties_output,
                    seasons_map, stderr, exit_status, output_file, rows_read,
                    type_name >>

MapNext == CallMapPlantId
SpecMap == MapInit /\ [][MapNext]_vars

----------------------------------------------------------------------------
(* Properties.  The definitions below state what is claimed of the program *)
(* in terms of positions in the text, not of the steps the code takes.     *)

\* s without its leading and trailing white space: the part between the
\* first and the last piece that is not white space.
Trimmed(s) ==
    LET solid == {i \in 1..Len(s) : s[i] \notin WhiteSpace}
    IN  IF solid = {} THEN <<>>
        ELSE SubSeq(s, CHOOSE i \in solid : \A j \in solid : i <= j,
                       CHOOSE i \in solid : \A j \in solid : i >= j)

\* The text before the first "(".
BeforeFirstParen(s) ==
    LET parens == {i \in 1..Len(s) : s[i] = "("}
    IN  IF parens = {} THEN s
        ELSE SubSeq(s, 1, (CHOOSE i \in parens : \A j \in parens : i <= j) - 1)

LeadingSpaces(s) ==
    LET others == {i \in 1..Len(s) : s[i] # " "}
    IN  IF others = {} THEN Len(s)
        ELSE (CHOOSE i \in others : \A j \in others : i <= j) - 1

\* Every run of k adjacent spaces shortened to (k + 1) \div 2 spaces: what
\* one left-to-right pass replacing two spaces by one leaves.
RECURSIVE PairsCollapsed(_)
PairsCollapsed(s) ==
    IF s = <<>> THEN <<>>
    ELSE IF s[1] # " " THEN << s[1] >> \o PairsCollapsed(Tail(s))
    ELSE LET k == LeadingSpaces(s)
         IN  [i \in 1..((k + 1) \div 2) |-> " "]
             \o PairsCollapsed(SubSeq(s, k + 1, Len(s)))

\* The two-stage lookup on a normalized name n.
TwoStageLookup(n) ==
    IF Join(n) \in DOMAIN PLANT_MAPPINGS THEN PLANT_MAPPINGS[Join(n)]
    ELSE IF Join(Trimmed(BeforeFirstParen(n))) \in DOMAIN PLANT_MAPPINGS
    THEN PLANT_MAPPINGS[Join(Trimmed(BeforeFirstParen(n)))]
    ELSE None

\* C1 as stated: map_plant_id is the two-stage lookup (exact key first, then
\* the trimmed text before the first "(") on the lower-cased, trimmed name,
\* and None for a missing or empty name.
C1_LookupOnLowerTrimmed ==
    pc = "returned" =>
        mapped = IF isna(type_name) THEN None
                 ELSE TwoStageLookup(Trimmed(lower(type_name.v)))

\* C1 amended: map_plant_id is the two-stage lookup (exact key first, then
\* the trimmed text before the first "(") on the name lower-cased, trimmed
\* and then with every two adjacent spaces replaced by one in a single pass;
\* None for a missing or empty name.
C1_LookupOnNormalized ==
    pc = "returned" =>
        mapped = IF isna(type_name) THEN None
                 ELSE TwoStageLookup(
                          PairsCollapsed(Trimmed(lower(type_name.v))))

\* C1 witness: a name that is a key and whose text before "(" is another
\* key with a different value has been looked up, and the exact key won.
C1_ExactKeyWon ==
    /\ pc = "returned"
    /\ ~isna(type_name)
    /\ Join(Trimmed(lower(type_name.v))) = "onion (spring) keravel pink"
    /\ Join(Trimmed(BeforeFirstParen(Trimmed(lower(type_name.v))))) = "onion"
    /\ mapped = "spring-onion"

----------------------------------------------------------------------------
(* Rows of the sheet being parsed, by position (row i has index i - 1). *)

ParsingSheet ==
    /\ pc = "parse"
    /\ stage \in 1..Len(SheetOfStage)
    /\ SheetOfStage[stage] \in all_sheets

\* Row i is one the loop classifies: its Variety is not blank and, in a
\* sowing calendar, it is not one of the first two rows.
Considered(rows, i, sowing) ==
    ~isna(rows[i].Variety) /\ (sowing => i - 1 >= 2)

\* The Type of row i, or of the nearest earlier row among `sources` whose
\* Type is not blank (NaN when there is none).
TypeCarriedFrom(rows, i, sources) ==
    IF ~isna(rows[i].Type) THEN rows[i].Type
    ELSE LET typed == {j \in sources : j < i /\ ~isna(rows[j].Type)}
         IN  IF typed = {} THEN NaN
             ELSE rows[CHOOSE j \in typed : \A k \in typed : j >= k].Type

AllRows(rows) == 1..Len(rows)
ConsideredRows(rows, sowing) ==
    {i \in 1..Len(rows) : Considered(rows, i, sowing)}

\* The plant ids of the records the considered rows give, in row order, when
\* a blank Type is carried from `sources`.
PlantIdsExpected(rows, sowing, sources) ==
    LET giving == {i \in ConsideredRows(rows, sowing) :
                      map_plant_id(TypeCarriedFrom(rows, i, sources)) # None}
        order == sorted_ints(giving)
    IN  [k \in 1..Len(order) |->
            map_plant_id(TypeCarriedFrom(rows, order[k], sources))]

PlantIdsOf(records) == [k \in 1..Len(records) |-> records[k].plantId]

\* The rows that give a record, in row order.
GivingRows(rows, sowing) ==
    sorted_ints({i \in ConsideredRows(rows, sowing) :
        map_plant_id(TypeCarriedFrom(rows, i, ConsideredRows(rows, sowing)))
            # None})

\* C2: a considered row whose type is not a key in either lookup stage adds
\* no record and prints one warning naming that type, in "To grow" and in
\* "Sowing calendar" sheets alike.
C2_UnmappedSkippedWithWarning ==
    [][ ( /\ ParsingSheet
          /\ Len(df') = Len(df) + 1
          /\ Considered(df', Len(df'), IsSowingStage(stage))
          /\ ~falsy_type(plant_type')
          /\ TwoStageLookup(PairsCollapsed(Trimmed(lower(plant_type'.v))))
                = None )
        => ( /\ parsed' = parsed
             /\ stderr' = Append(stderr, Warning(Join(plant_type'.v))) )
      ]_vars

\* C3 as stated: a considered row with a blank Type is classified with the
\* last non-blank Type of ANY earlier row of the sheet, rows with a blank
\* Variety and the first two rows of a sowing calendar included.
C3_CarryFromAnyRow ==
    ParsingSheet =>
        PlantIdsOf(parsed)
            = PlantIdsExpected(df, IsSowingStage(stage), AllRows(df))

\* C3 amended: a considered row with a blank Type is classified with the
\* last non-blank Type among the earlier CONSIDERED rows of the sheet (rows
\* with a blank Variety and the first two rows of a sowing calendar neither
\* are classified nor change the carried Type); with no such row it gives
\* nothing.
C3_CarryFromConsideredRows ==
    ParsingSheet =>
        /\ PlantIdsOf(parsed)
              = PlantIdsExpected(df, IsSowingStage(stage),
                                 ConsideredRows(df, IsSowingStage(stage)))
        /\ (df # <<>> /\ Considered(df, Len(df), IsSowingStage(stage)))
              => plant_type
                    = TypeCarriedFrom(df, Len(df),
                          ConsideredRows(df, IsSowingStage(stage)))

\* C3 witness: a considered row with a blank Type follows a row that has a
\* Type but is not considered, which follows a considered row with another
\* Type; the row was classified.
C3_CarriedPastSkippedRow ==
    /\ ParsingSheet
    /\ \E i, j, k \in 1..Len(df) :
          /\ i < j /\ j < k /\ k = Len(df)
          /\ Considered(df, i, IsSowingStage(stage)) /\ ~isna(df[i].Type)
          /\ ~Considered(df, j, IsSowingStage(stage)) /\ ~isna(df[j].Type)
          /\ df[j].Type # df[i].Type
          /\ Considered(df, k, IsSowingStage(stage)) /\ isna(df[k].Type)
          /\ Len(parsed) >= 2
          /\ parsed[Len(parsed)].plantId = map_plant_id(df[i].Type)
          /\ parsed[Len(parsed)].plantId # map_plant_id(df[j].Type)

\* C6: a run ends in one of two ways: with fewer than two arguments, the
\* usage message and status 1, the workbook not read and no output file
\* written; otherwise, whatever the workbook holds, one output file written.
C6_UsageOrOneOutput ==
    exit_status # <<>> =>
        IF argc < 3
        THEN /\ exit_status = << 1 >>
             /\ stderr = << Message("usage", 0, 0) >>
             /\ all_sheets = {}
             /\ rows_read = 0
             /\ output_file = <<>>
        ELSE /\ pc = "done"
             /\ Len(output_file) = 1

----------------------------------------------------------------------------
(* The written document *)

Written == pc = "done"
Doc == output_file[1]
Seasons == Doc.allotment.seasons
LayoutAreas == Doc.allotment.layout.areas

\* The (season, area) positions of the document that list year y, area a.
EntriesOf(y, a) ==
    {e \in UNION {{<< i, j >> : j \in 1..Len(Seasons[i].areas)} :
                     i \in 1..Len(Seasons)} :
        Seasons[e[1]].year = y /\ Seasons[e[1]].areas[e[2]].areaId = a}

BedIsKey(p) == p.bed \in DOMAIN BED_MAPPING

\* The parsed plantings of year y whose bed label maps to area a, as the
\* document records a planting, in parse order.
PlantingsFor(y, a) ==
    LET mine(p) == p.year = y /\ BedIsKey(p) /\ BED_MAPPING[p.bed] = a
        kept == SelectSeq(all_plantings_raw, mine)
    IN  [k \in 1..Len(kept) |-> planting_of(kept[k])]

SeasonYears == {Seasons[i].year : i \in 1..Len(Seasons)}
SeasonAreaIds ==
    UNION {{Seasons[i].areas[j].areaId : j \in 1..Len(Seasons[i].areas)} :
              i \in 1..Len(Seasons)}

\* C4: the bed of a parsed planting is the trimmed label of its row; a
\* parsed planting is listed exactly when that label is a key of
\* BED_MAPPING, then once, under the season of its year and the area
\* BED_MAPPING gives; the others are listed nowhere and print no warning.
C4_ListedIffBedIsKey ==
    /\ (ParsingSheet /\ IsSowingStage(stage)) =>
          LET giving == GivingRows(df, TRUE)
          IN  /\ Len(parsed) = Len(giving)
              /\ \A k \in 1..Len(parsed) :
                    parsed[k].bed =
                        IF isna(df[giving[k]].Bed) THEN None
                        ELSE Join(Trimmed(df[giving[k]].Bed.v))
    /\ Written =>
          /\ \A y \in SeasonYears \cup {2024, 2025} :
             \A a \in SeasonAreaIds \cup {"A", "B1", "C", "D"} :
                /\ Cardinality(EntriesOf(y, a)) =
                      IF PlantingsFor(y, a) = <<>> THEN 0 ELSE 1
                /\ \A e \in EntriesOf(y, a) :
                      Seasons[e[1]].areas[e[2]].plantings = PlantingsFor(y, a)
          /\ \A i \in 1..Len(stderr) : stderr[i].kind # "warning"

\* C4 witness: the document is written, one parsed planting has a bed label
\* that is no key ("a"), one has none, and one has the label "B", listed
\* under B1.
C4_DroppedAndRenamed ==
    /\ Written
    /\ \E i, j, k \in 1..Len(all_plantings_raw) :
          /\ all_plantings_raw[i].bed = "a"
          /\ all_plantings_raw[j].bed = None
          /\ all_plantings_raw[k].bed = "B"
          /\ Len(PlantingsFor(all_plantings_raw[k].year, "B1")) = 1
          /\ EntriesOf(all_plantings_raw[k].year, "B1") # {}

Groups == { "legumes", "brassicas", "roots", "alliums", "cucurbits",
            "solanaceae" }

PositionsOf(ps, g) == {i \in 1..Len(ps) : group_of(ps[i].plantId) = g}
FirstOf(ps, g) ==
    CHOOSE i \in PositionsOf(ps, g) : \A j \in PositionsOf(ps, g) : i <= j

\* g is the most frequent group of ps, the earliest-starting one among the
\* most frequent; "roots" for no plantings.
MostFrequentGroup(ps, g) ==
    IF ps = <<>> THEN g = "roots"
    ELSE /\ PositionsOf(ps, g) # {}
         /\ \A h \in Groups \ {g} :
               \/ Cardinality(PositionsOf(ps, h))
                     < Cardinality(PositionsOf(ps, g))
               \/ /\ Cardinality(PositionsOf(ps, h))
                        = Cardinality(PositionsOf(ps, g))
                  /\ FirstOf(ps, g) < FirstOf(ps, h)

\* C5: the rotationGroup of every area entry of every season is the most
\* frequent crop-family group of its plantings (a plant id in no family
\* counting as roots), a tie going to the group whose first planting comes
\* first; no plantings give roots.
C5_RotationGroupIsMajority ==
    /\ infer_rotation_group(<<>>) = "roots"
    /\ Written =>
          \A i \in 1..Len(Seasons) : \A j \in 1..Len(Seasons[i].areas) :
              MostFrequentGroup(Seasons[i].areas[j].plantings,
                                Seasons[i].areas[j].rotationGroup)

\* C5 witness: an area entry whose first planting is a legume and whose two
\* later plantings are alliums was given alliums.
C5_MajorityBeatsFirst ==
    /\ Written
    /\ \E i \in 1..Len(Seasons) : \E j \in 1..Len(Seasons[i].areas) :
          LET e == Seasons[i].areas[j]
          IN  /\ Len(e.plantings) = 3
              /\ group_of(e.plantings[1].plantId) = "legumes"
              /\ group_of(e.plantings[2].plantId) = "alliums"
              /\ group_of(e.plantings[3].plantId) = "alliums"
              /\ e.rotationGroup = "alliums"

\* C7: layout.areas is the fixed list of nine areas with distinct ids,
\* raspberries a perennial-bed and the others rotation-beds, each with a
\* gridPosition; every areaId of every season is the id of one of them.
C7_AreasFixedAndReferenced ==
    Written =>
        /\ [i \in 1..Len(LayoutAreas) |-> LayoutAreas[i].id]
              = << "A", "B1", "B2", "B1-prime", "B2-prime", "C", "D", "E",
                   "raspberries" >>
        /\ \A i, j \in 1..Len(LayoutAreas) :
              LayoutAreas[i].id = LayoutAreas[j].id => i = j
        /\ \A i \in 1..Len(LayoutAreas) :
              /\ LayoutAreas[i].kind =
                    IF LayoutAreas[i].id = "raspberries" THEN "perennial-bed"
                    ELSE "rotation-bed"
              /\ "gridPosition" \in DOMAIN LayoutAreas[i]
        /\ \A a \in SeasonAreaIds :
              \E i \in 1..Len(LayoutAreas) : LayoutAreas[i].id = a

\* C7 witness: a planting with bed label "B" is listed, under area B1.
C7_SeasonRefersToB1 ==
    /\ Written
    /\ "B1" \in SeasonAreaIds
    /\ \E k \in 1..Len(all_plantings_raw) : all_plantings_raw[k].bed = "B"


EarliestSeasons ==
    {i \in 1..Len(Seasons) :
        \A j \in 1..Len(Seasons) : Seasons[i].year <= Seasons[j].year}

\* The entries of the earliest season for area id a that hold a planting.
EarliestEntriesOf(a) ==
    {e \in UNION {{<< i, j >> : j \in 1..Len(Seasons[i].areas)} :
                     i \in EarliestSeasons} :
        /\ Seasons[e[1]].areas[e[2]].areaId = a
        /\ Len(Seasons[e[1]].areas[e[2]].plantings) >= 1}

\* C8: a layout area has a rotationGroup exactly when it is a rotation-bed
\* with a planting in the earliest season of the document, and the value is
\* that of its entry in that season.
C8_LayoutGroupFromEarliestSeason ==
    Written =>
        \A k \in 1..Len(LayoutAreas) :
            LET area == LayoutAreas[k]
                entries == EarliestEntriesOf(area.id)
            IN  /\ ("rotationGroup" \in DOMAIN area)
                      <=> (area.kind = "rotation-bed" /\ entries # {})
                /\ ("rotationGroup" \in DOMAIN area) =>
                      \A e \in entries :
                          area.rotationGroup
                              = Seasons[e[1]].areas[e[2]].rotationGroup

\* C8 witness: the document has two seasons; an area planted in the later
\* one only has no rotationGroup and an area of the earliest season has one.
C8_LaterOnlyAreaHasNoGroup ==
    /\ Written
    /\ Len(Seasons) = 2
    /\ \E k, l \in 1..Len(LayoutAreas) :
          /\ LayoutAreas[k].id \in SeasonAreaIds
          /\ EarliestEntriesOf(LayoutAreas[k].id) = {}
          /\ "rotationGroup" \notin DOMAIN LayoutAreas[k]
          /\ "rotationGroup" \in DOMAIN LayoutAreas[l]

Varieties == Doc.varieties.varieties

SamePair(v, r) == v.plantId = r.plantId /\ v.name = r.name
RowsOfPair(v) ==
    {i \in 1..Len(all_varieties_raw) : SamePair(v, all_varieties_raw[i])}
YearsOfPair(v) == {all_varieties_raw[i].year : i \in RowsOfPair(v)}
FirstRowOf(v) ==
    all_varieties_raw[CHOOSE i \in RowsOfPair(v) :
                         \A j \in RowsOfPair(v) : i <= j]
LastRowOf(v, y) ==
    LET mine == {i \in RowsOfPair(v) : all_varieties_raw[i].year = y}
    IN  all_varieties_raw[CHOOSE i \in mine : \A j \in mine : i >= j]

\* C9: an accepted row carries the trimmed variety name; the document has
\* one variety per (plantId, name) pair of the accepted rows; supplier and
\* price are those of the first row of the pair, left out when it has none;
\* yearsUsed is the ascending list of the pair's years; seedsByYear has one
\* entry per such year, "have" or "ordered" by the Arrived of the pair's last
\* row of that year.
C9_VarietiesMergedByPair ==
    /\ (ParsingSheet /\ IsToGrowStage(stage)) =>
          LET giving == GivingRows(df, FALSE)
          IN  /\ Len(parsed) = Len(giving)
              /\ \A k \in 1..Len(parsed) :
                    /\ parsed[k].name = Join(Trimmed(df[giving[k]].Variety.v))
                    /\ parsed[k].arrived =
                          (~isna(df[giving[k]].Arrived)
                             /\ df[giving[k]].Arrived.v)
    /\ Written =>
          /\ Len(Varieties) =
                Cardinality({<< all_varieties_raw[i].plantId,
                                all_varieties_raw[i].name >> :
                                i \in 1..Len(all_varieties_raw)})
          /\ \A i, j \in 1..Len(Varieties) :
                SamePair(Varieties[i], Varieties[j]) => i = j
          /\ \A i \in 1..Len(Varieties) :
                LET v == Varieties[i]
                IN  /\ RowsOfPair(v) # {}
                    /\ ("supplier" \in DOMAIN v)
                          <=> FirstRowOf(v).supplier # None
                    /\ ("supplier" \in DOMAIN v)
                          => v.supplier = FirstRowOf(v).supplier
                    /\ ("price" \in DOMAIN v) <=> ~FirstRowOf(v).price.na
                    /\ ("price" \in DOMAIN v)
                          => v.price = FirstRowOf(v).price.v
                    /\ \A a, b \in 1..Len(v.yearsUsed) :
                          a < b => v.yearsUsed[a] < v.yearsUsed[b]
                    /\ Range(v.yearsUsed) = YearsOfPair(v)
                    /\ "seedsByYear" \in DOMAIN v
                    /\ DOMAIN v.seedsByYear = YearsOfPair(v)
                    /\ \A y \in YearsOfPair(v) :
                          v.seedsByYear[y] =
                              IF LastRowOf(v, y).arrived THEN "have"
                              ELSE "ordered"

\* C9 witness: a pair occurs twice in 2024, first arrived and then not, and
\* once in 2025; its variety is written with both years.
C9_PairMergedOverYears ==
    /\ Written
    /\ \E i \in 1..Len(Varieties) :
          /\ Varieties[i].yearsUsed = << 2024, 2025 >>
          /\ \E a, b \in RowsOfPair(Varieties[i]) :
                /\ a < b
                /\ all_varieties_raw[a].year = 2024
                /\ all_varieties_raw[b].year = 2024
                /\ all_varieties_raw[a].arrived
                /\ ~all_varieties_raw[b].arrived
          /\ Varieties[i].seedsByYear[2024] = "ordered"

\* C10: the seasons are in strictly ascending year order, one for each year
\* with a planting whose bed is a key; the area entries of a season have
\* strictly ascending areaIds and at least one planting each; currentYear is
\* the largest season year, 2025 without seasons.
C10_SeasonsOrderedAndNonEmpty ==
    Written =>
        /\ \A i, j \in 1..Len(Seasons) :
              i < j => Seasons[i].year < Seasons[j].year
        /\ SeasonYears =
              {all_plantings_raw[k].year :
                  k \in {n \in 1..Len(all_plantings_raw) :
                            BedIsKey(all_plantings_raw[n])}}
        /\ \A i \in 1..Len(Seasons) :
              /\ \A a, b \in 1..Len(Seasons[i].areas) :
                    a < b => str_rank(Seasons[i].areas[a].areaId)
                                < str_rank(Seasons[i].areas[b].areaId)
              /\ \A a \in 1..Len(Seasons[i].areas) :
                    Len(Seasons[i].areas[a].plantings) >= 1
        /\ Doc.allotment.currentYear =
              IF Seasons = <<>> THEN 2025
              ELSE CHOOSE y \in SeasonYears : \A z \in SeasonYears : y >= z

\* C10 witness: the document has the seasons 2024 and 2025, in that order,
\* and currentYear 2025.
C10_TwoSeasonsInOrder ==
    /\ Written
    /\ Len(Seasons) = 2
    /\ Seasons[1].year = 2024
    /\ Seasons[2].year = 2025
    /\ Doc.allotment.currentYear = 2025

====
